---- MODULE Spec2Model ----
(***************************************************************************)
(* Open-Face Chinese Poker rules engine: cards, the hand evaluator, the    *)
(* royalty calculator and the three-row board, as implemented in           *)
(* core/card.py, evaluation/evaluator.py, evaluation/royalty.py and        *)
(* core/board.py.                                                          *)
(***************************************************************************)
EXTENDS Integers, Sequences, FiniteSets, TLC

VARIABLES
    cards,    \* the hand handed to HandEvaluator / RoyaltyCalculator
    op,       \* the operation invoked last
    ret,      \* the value it returned (read only when op # "none")
    raised,   \* the exception it raised, "none" when it returned
    board,    \* a Board: three StreetHands
    plan,     \* the cards the player holds for each street of the board
    street,   \* the street the last place_card aimed at
    deck,     \* Deck._cards, top of the deck first
    fantasy,  \* a FantasyManager: mode, state and statistics
    game,     \* a Game: state, current player, hands, boards and deck
    input_cards,  \* GameState.input_cards, the hand of the mover
    arg,      \* the argument of the last call, where a specification records it
    calls,    \* the number of calls made so far, where a specification counts them
    checked,  \* the boards given to check_fantasy_entry since the last exit_fantasy
    app,      \* an AppState: sessions, games, active users, lock, and the clock
    pc,       \* the position of every thread that calls the AppState
    client,   \* the browser's Game: its state, localStorage and statistics
    net       \* the socket events and fetch responses on their way to the client

vars == <<cards, op, ret, raised, board, plan, street, deck, fantasy, game,
          input_cards, arg, calls, checked, app, pc, client, net>>

\* the value of a variable that a specification does not use
Unused == "unused"

----------------------------------------------------------------------------
(* core/card.py *)

SPADES == 1
HEARTS == 2
DIAMONDS == 3
CLUBS == 4
Suit == {SPADES, HEARTS, DIAMONDS, CLUBS}

TWO == 2
ACE == 14
Rank == TWO..ACE

Card(r, s) == [rank |-> r, suit |-> s]

\* Deck._create_deck: rank-major, suit-minor; the position of a card in it.
DeckIndex(c) == (c.rank - TWO) * Cardinality(Suit) + c.suit

\* str.upper and str.lower on the characters that name ranks and suits
upper(char) ==
    CASE char = "t" -> "T" [] char = "j" -> "J" [] char = "q" -> "Q"
      [] char = "k" -> "K" [] char = "a" -> "A" [] char = "s" -> "S"
      [] char = "h" -> "H" [] char = "d" -> "D" [] char = "c" -> "C"
      [] OTHER -> char

lower(char) ==
    CASE char = "T" -> "t" [] char = "J" -> "j" [] char = "Q" -> "q"
      [] char = "K" -> "k" [] char = "A" -> "a" [] char = "S" -> "s"
      [] char = "H" -> "h" [] char = "D" -> "d" [] char = "C" -> "c"
      [] OTHER -> char

\* the mapping of Suit.from_char, and Suit.to_char, its inverse
Suit_mapping == [s |-> SPADES, h |-> HEARTS, d |-> DIAMONDS, c |-> CLUBS]

Suit_to_char(suit) == CHOOSE char \in DOMAIN Suit_mapping : Suit_mapping[char] = suit

\* the mapping of Rank.from_char, and Rank.to_char, its inverse
Rank_mapping ==
    ("2" :> 2) @@ ("3" :> 3) @@ ("4" :> 4) @@ ("5" :> 5) @@ ("6" :> 6) @@ ("7" :> 7)
      @@ ("8" :> 8) @@ ("9" :> 9) @@ ("T" :> 10) @@ ("J" :> 11) @@ ("Q" :> 12)
      @@ ("K" :> 13) @@ ("A" :> 14)

Rank_to_char(rank) == CHOOSE char \in DOMAIN Rank_mapping : Rank_mapping[char] = rank

\* Card.to_string: a string is the sequence of its characters
to_string(c) == <<Rank_to_char(c.rank), Suit_to_char(c.suit)>>

\* Card.from_string: the exception raised and the card returned
from_string(card_str) ==
    IF Len(card_str) # 2 THEN [raised |-> "ValueError", card |-> Card(0, 0)]
    ELSE IF upper(card_str[1]) \notin DOMAIN Rank_mapping
              \/ lower(card_str[2]) \notin DOMAIN Suit_mapping
         THEN [raised |-> "KeyError", card |-> Card(0, 0)]
         ELSE [raised |-> "none",
               card |-> Card(Rank_mapping[upper(card_str[1])],
                             Suit_mapping[lower(card_str[2])])]

Card_to_dict(c) ==
    [rank |-> Rank_to_char(c.rank),
     suit |-> Suit_to_char(c.suit),
     color |-> IF c.suit \in {HEARTS, DIAMONDS} THEN "red" ELSE "black",
     display |-> to_string(c),
     id |-> to_string(c)]

\* Card.from_dict: class Card defines no attribute of this name, so the
\* attribute lookup raises
Card_from_dict(card_data) == [raised |-> "AttributeError", card |-> Card(0, 0)]

----------------------------------------------------------------------------
(* evaluation/evaluator.py *)

\* float('inf'), as an integer above every rank a hand of up to eight cards
\* can get (seven distinct ranks weigh less than 15^7).
INF == 1000000000

HAND_RANKINGS ==
    [HighCard |-> 1, Pair |-> 2, TwoPair |-> 3, ThreeOfAKind |-> 4,
     Straight |-> 5, Flush |-> 6, FullHouse |-> 7, FourOfAKind |-> 8,
     StraightFlush |-> 9, RoyalFlush |-> 10]

RankValues(hand) == {hand[i].rank : i \in DOMAIN hand}

SetMin(S) == CHOOSE x \in S : \A y \in S : x <= y
SetMax(S) == CHOOSE x \in S : \A y \in S : x >= y

\* sorted(list of ints): ascending, duplicates kept
RECURSIVE sorted(_)
sorted(xs) ==
    IF xs = <<>> THEN <<>>
    ELSE LET m == SetMin({xs[i] : i \in DOMAIN xs})
             k == CHOOSE i \in DOMAIN xs : xs[i] = m /\ \A j \in 1..(i - 1) : xs[j] # m
             rest == [i \in 1..(Len(xs) - 1) |-> IF i < k THEN xs[i] ELSE xs[i + 1]]
         IN  <<m>> \o sorted(rest)

\* list(range(lo, hi + 1))
RangeList(lo, hi) == [i \in 1..(hi - lo + 1) |-> lo + i - 1]

\* dict rank -> number of cards of that rank
_get_rank_counts(hand) ==
    [r \in RankValues(hand) |-> Cardinality({i \in DOMAIN hand : hand[i].rank = r})]

CountValues(hand) == {_get_rank_counts(hand)[r] : r \in RankValues(hand)}

_is_flush(hand) ==
    IF Len(hand) < 5 THEN FALSE
    ELSE Cardinality({hand[i].suit : i \in DOMAIN hand}) = 1

_is_straight(hand) ==
    IF Len(hand) < 5 THEN FALSE
    ELSE LET ranks == sorted([i \in DOMAIN hand |-> hand[i].rank])
         IN  IF ranks = <<2, 3, 4, 5, 14>> THEN TRUE
             ELSE ranks = RangeList(SetMin(RankValues(hand)), SetMax(RankValues(hand)))

_is_straight_flush(hand) == _is_flush(hand) /\ _is_straight(hand)

_is_royal_flush(hand) ==
    IF ~_is_straight_flush(hand) THEN FALSE
    ELSE SetMax(RankValues(hand)) = 14

_is_four_of_kind(hand) == 4 \in CountValues(hand)

_is_full_house(hand) == 3 \in CountValues(hand) /\ 2 \in CountValues(hand)

_is_three_of_kind(hand) == 3 \in CountValues(hand)

\* values.count(2) == 2
_is_two_pair(hand) ==
    Cardinality({r \in RankValues(hand) : _get_rank_counts(hand)[r] = 2}) = 2

_is_pair(hand) == 2 \in CountValues(hand)

\* mutant: the value of the card that happens to come first
_get_high_card_value_first(hand) == hand[1].rank

\* min(card.rank.value for card in cards), as the source has it
_get_high_card_value(hand) == SetMin(RankValues(hand))

\* 15 ** i
RECURSIVE Pow15(_)
Pow15(i) == IF i = 0 THEN 1 ELSE 15 * Pow15(i - 1)

\* the distinct ranks in descending order (the counts are not used), folded
\* with weights 15^0, 15^1, ...
RECURSIVE KickerSum(_, _)
KickerSum(S, i) ==
    IF S = {} THEN 0
    ELSE LET r == SetMax(S) IN r * Pow15(i) + KickerSum(S \ {r}, i + 1)

_get_kicker_value(hand) == KickerSum(RankValues(hand), 0)

\* lines 34-54: the combinations tried from the strongest to the weakest
evaluate_combination(hand) ==
    IF _is_royal_flush(hand) THEN 1
    ELSE IF _is_straight_flush(hand) THEN _get_high_card_value(hand)
    ELSE IF _is_four_of_kind(hand) THEN 10 + _get_kicker_value(hand)
    ELSE IF _is_full_house(hand) THEN 166 + _get_kicker_value(hand)
    ELSE IF _is_flush(hand) THEN 322 + _get_high_card_value(hand)
    ELSE IF _is_straight(hand) THEN 1599 + _get_high_card_value(hand)
    ELSE IF _is_three_of_kind(hand) THEN 1609 + _get_kicker_value(hand)
    ELSE IF _is_two_pair(hand) THEN 2467 + _get_kicker_value(hand)
    ELSE IF _is_pair(hand) THEN 3325 + _get_kicker_value(hand)
    ELSE 6185 + _get_high_card_value(hand)

\* mutant: the empty hand ranked as the strongest hand instead of the weakest
evaluate_empty_zero(hand) ==
    IF hand = <<>> THEN 0 ELSE evaluate_combination(hand)

evaluate(hand) ==
    IF hand = <<>> THEN INF ELSE evaluate_combination(hand)

----------------------------------------------------------------------------
(* evaluation/royalty.py *)

\* mutant: trips paid from 10 for deuces, 10 + (rank - 2)
calculate_front_from_deuces(hand) ==
    IF Len(hand) # 3 THEN 0
    ELSE LET rank_counts == _get_rank_counts(hand)
             max_count == SetMax(CountValues(hand))
         IN  IF max_count = 3
             THEN 10 + SetMax({r \in DOMAIN rank_counts : rank_counts[r] = 3}) - 2
             ELSE IF max_count = 2
             THEN LET rank == SetMax({r \in DOMAIN rank_counts : rank_counts[r] = 2})
                  IN  IF rank - 5 > 0 THEN rank - 5 ELSE 0
             ELSE 0

calculate_front(hand) ==
    IF Len(hand) # 3 THEN 0
    ELSE LET rank_counts == _get_rank_counts(hand)
             max_count == SetMax(CountValues(hand))
         IN  IF max_count = 3
             THEN 10 + SetMax({r \in DOMAIN rank_counts : rank_counts[r] = 3})
             ELSE IF max_count = 2
             THEN LET rank == SetMax({r \in DOMAIN rank_counts : rank_counts[r] = 2})
                  IN  IF rank - 5 > 0 THEN rank - 5 ELSE 0
             ELSE 0

calculate_middle(hand) ==
    IF Len(hand) # 5 THEN 0
    ELSE LET rank == evaluate(hand)
         IN  IF rank <= 1609
             THEN IF rank <= 1 THEN 50
                  ELSE IF rank <= 10 THEN 30
                  ELSE IF rank <= 166 THEN 20
                  ELSE IF rank <= 322 THEN 12
                  ELSE IF rank <= 1599 THEN 8
                  ELSE 2
             ELSE 0

calculate_back(hand) ==
    IF Len(hand) # 5 THEN 0
    ELSE LET rank == evaluate(hand)
         IN  IF rank <= 1 THEN 25
             ELSE IF rank <= 10 THEN 15
             ELSE IF rank <= 166 THEN 10
             ELSE IF rank <= 322 THEN 6
             ELSE IF rank <= 1599 THEN 4
             ELSE IF rank <= 1609 THEN 2
             ELSE 0

----------------------------------------------------------------------------
(* core/board.py *)

FRONT == 0
MIDDLE == 1
BACK == 2
Street == {FRONT, MIDDLE, BACK}

\* Board(): the default rows, StreetHand(max_cards=3), (5), (5)
EmptyBoard ==
    [front  |-> [cards |-> <<>>, max_cards |-> 3],
     middle |-> [cards |-> <<>>, max_cards |-> 5],
     back   |-> [cards |-> <<>>, max_cards |-> 5]]

_get_street(b, s) ==
    IF s = FRONT THEN b.front
    ELSE IF s = MIDDLE THEN b.middle
    ELSE b.back

\* the board with the row of street s replaced (the rows are mutable objects
\* of the board; add_card mutates the row in place)
WithStreet(b, s, sh) ==
    IF s = FRONT THEN [b EXCEPT !.front = sh]
    ELSE IF s = MIDDLE THEN [b EXCEPT !.middle = sh]
    ELSE [b EXCEPT !.back = sh]

\* mutant: the capacity test off by one (> for >=)
add_card_off_by_one(sh, card) ==
    IF Len(sh.cards) > sh.max_cards
    THEN [raised |-> "ValueError", sh |-> sh]
    ELSE [raised |-> "none", sh |-> [sh EXCEPT !.cards = Append(@, card)]]

\* StreetHand.add_card: the exception raised and the row afterwards
add_card(sh, card) ==
    IF Len(sh.cards) >= sh.max_cards
    THEN [raised |-> "ValueError", sh |-> sh]
    ELSE [raised |-> "none", sh |-> [sh EXCEPT !.cards = Append(@, card)]]

\* mutant: full only beyond the capacity (> for ==)
is_full_beyond_capacity(sh) == Len(sh.cards) > sh.max_cards

is_full(sh) == Len(sh.cards) = sh.max_cards

StreetHand_clear(sh) == [sh EXCEPT !.cards = <<>>]

\* Board.place_card: the exception raised and the board afterwards
place_card(b, card, s) ==
    LET added == add_card(_get_street(b, s), card)
    IN  [raised |-> added.raised, board |-> WithStreet(b, s, added.sh)]

get_free_streets(b) == {s \in Street : ~is_full(_get_street(b, s))}

is_complete(b) == \A s \in Street : is_full(_get_street(b, s))

\* mutant: the rows summed without asking whether the board is complete
get_royalties_unchecked(b) ==
    calculate_front(b.front.cards) + calculate_middle(b.middle.cards)
        + calculate_back(b.back.cards)

\* mutant: the front row's royalty left out of the sum
get_royalties_without_front(b) ==
    IF ~is_complete(b) THEN 0
    ELSE calculate_middle(b.middle.cards) + calculate_back(b.back.cards)

get_royalties(b) ==
    IF ~is_complete(b) THEN 0
    ELSE calculate_front(b.front.cards) + calculate_middle(b.middle.cards)
             + calculate_back(b.back.cards)

\* functools.lru_cache, which wraps HandEvaluator.evaluate, hashes the
\* arguments of a call into the cache key before the wrapped function runs;
\* a tuple of Cards has a hash, a list has none
Hashable(pytype) == pytype = "tuple"

\* mutant: the row's cards handed to evaluate as a tuple, which has a hash
get_rank_of_tuple(sh) == [raised |-> "none", ret |-> evaluate(sh.cards)]

\* StreetHand.get_rank: evaluate is handed self.cards, a list
get_rank(sh) ==
    IF Hashable("list")
    THEN [raised |-> "none", ret |-> evaluate(sh.cards)]
    ELSE [raised |-> "TypeError", ret |-> 0]

\* mutant: the ranks compared without asking whether the board is complete
is_valid_unguarded(b) ==
    LET back_rank == get_rank(b.back)
        middle_rank == get_rank(b.middle)
        front_rank == get_rank(b.front)
    IN  IF back_rank.raised # "none" THEN [raised |-> back_rank.raised, ret |-> FALSE]
        ELSE IF middle_rank.raised # "none" THEN [raised |-> middle_rank.raised, ret |-> FALSE]
        ELSE IF front_rank.raised # "none" THEN [raised |-> front_rank.raised, ret |-> FALSE]
        ELSE [raised |-> "none",
              ret |-> back_rank.ret <= middle_rank.ret /\ middle_rank.ret <= front_rank.ret]

\* Board.is_valid: the exception raised and the value returned (ret is not
\* read when an exception is raised)
is_valid(b) ==
    IF ~is_complete(b) THEN [raised |-> "none", ret |-> FALSE]
    ELSE LET back_rank == get_rank(b.back)
             middle_rank == get_rank(b.middle)
             front_rank == get_rank(b.front)
         IN  IF back_rank.raised # "none" THEN [raised |-> back_rank.raised, ret |-> FALSE]
             ELSE IF middle_rank.raised # "none" THEN [raised |-> middle_rank.raised, ret |-> FALSE]
             ELSE IF front_rank.raised # "none" THEN [raised |-> front_rank.raised, ret |-> FALSE]
             ELSE [raised |-> "none",
                   ret |-> back_rank.ret <= middle_rank.ret /\ middle_rank.ret <= front_rank.ret]

StreetHand_to_dict(sh) ==
    [cards |-> [i \in DOMAIN sh.cards |-> Card_to_dict(sh.cards[i])],
     max_cards |-> sh.max_cards]

\* StreetHand.from_dict: the comprehension calls Card.from_dict on each card
\* in turn, and __post_init__ refuses more cards than max_cards
StreetHand_from_dict(data) ==
    LET decoded == [i \in DOMAIN data.cards |-> Card_from_dict(data.cards[i])]
        failed == {i \in DOMAIN decoded : decoded[i].raised # "none"}
    IN  IF failed # {}
        THEN [raised |-> decoded[SetMin(failed)].raised, sh |-> [cards |-> <<>>, max_cards |-> 0]]
        ELSE IF Len(decoded) > data.max_cards
        THEN [raised |-> "ValueError", sh |-> [cards |-> <<>>, max_cards |-> 0]]
        ELSE [raised |-> "none",
              sh |-> [cards |-> [i \in DOMAIN decoded |-> decoded[i].card],
                      max_cards |-> data.max_cards]]

Board_to_dict(b) ==
    [front  |-> StreetHand_to_dict(b.front),
     middle |-> StreetHand_to_dict(b.middle),
     back   |-> StreetHand_to_dict(b.back)]

\* Board.from_dict: the exception raised and the board built
Board_from_dict(data) ==
    LET front == StreetHand_from_dict(data.front)
        middle == StreetHand_from_dict(data.middle)
        back == StreetHand_from_dict(data.back)
    IN  IF front.raised # "none" THEN [raised |-> front.raised, board |-> EmptyBoard]
        ELSE IF middle.raised # "none" THEN [raised |-> middle.raised, board |-> EmptyBoard]
        ELSE IF back.raised # "none" THEN [raised |-> back.raised, board |-> EmptyBoard]
        ELSE [raised |-> "none",
              board |-> [front |-> front.sh, middle |-> middle.sh, back |-> back.sh]]

Board_clear(b) ==
    [front  |-> StreetHand_clear(b.front),
     middle |-> StreetHand_clear(b.middle),
     back   |-> StreetHand_clear(b.back)]

----------------------------------------------------------------------------
(* The evaluator and the royalty calculator applied to hands.  A hand is  *)
(* assembled card by card in deck order; the first card is a spade or a   *)
(* heart, a further card of the same rank takes the next suit and a card  *)
(* of a higher rank is a spade, which yields every multiset of ranks both *)
(* suited (where the ranks are distinct) and unsuited.                    *)

MaxHandLen == 5

NoPlan == [front |-> <<>>, middle |-> <<>>, back |-> <<>>]

FollowsInDeck(hand, c) ==
    IF hand = <<>> THEN c.suit \in {SPADES, HEARTS}
    ELSE LET last == hand[Len(hand)]
         IN  \/ c.rank = last.rank /\ c.suit = last.suit + 1
             \/ c.rank > last.rank /\ c.suit = SPADES

InitEval ==
    /\ cards = <<>>
    /\ op = "none"
    /\ ret = 0
    /\ raised = "none"
    /\ board = EmptyBoard
    /\ plan = NoPlan
    /\ street = 0
    /\ deck = <<>>
    /\ fantasy = Unused
    /\ game = Unused
    /\ input_cards = <<>>
    /\ arg = Unused
    /\ calls = 0
    /\ checked = <<>>
    /\ app = Unused
    /\ pc = Unused
    /\ client = Unused
    /\ net = Unused

AddCard ==
    /\ op = "none"
    /\ Len(cards) < MaxHandLen
    /\ \E r \in Rank, s \in Suit :
          /\ FollowsInDeck(cards, Card(r, s))
          /\ cards' = Append(cards, Card(r, s))
    /\ UNCHANGED <<op, ret, raised, board, plan, street, deck, fantasy, game, input_cards, arg, calls, checked, app, pc, client, net>>

Evaluate ==
    /\ op = "none"
    /\ op' = "evaluate"
    /\ ret' = evaluate(cards)
    /\ raised' = "none"       \* no path of evaluate raises
    /\ UNCHANGED <<cards, board, plan, street, deck, fantasy, game, input_cards, arg, calls, checked, app, pc, client, net>>

CalculateFront ==
    /\ op = "none"
    /\ op' = "calculate_front"
    /\ ret' = calculate_front(cards)
    /\ UNCHANGED <<cards, raised, board, plan, street, deck, fantasy, game, input_cards, arg, calls, checked, app, pc, client, net>>

CalculateMiddle ==
    /\ op = "none"
    /\ op' = "calculate_middle"
    /\ ret' = calculate_middle(cards)
    /\ UNCHANGED <<cards, raised, board, plan, street, deck, fantasy, game, input_cards, arg, calls, checked, app, pc, client, net>>

CalculateBack ==
    /\ op = "none"
    /\ op' = "calculate_back"
    /\ ret' = calculate_back(cards)
    /\ UNCHANGED <<cards, raised, board, plan, street, deck, fantasy, game, input_cards, arg, calls, checked, app, pc, client, net>>

NextEval == AddCard \/ Evaluate \/ CalculateFront \/ CalculateMiddle \/ CalculateBack

SpecEval == InitEval /\ [][NextEval]_vars

----------------------------------------------------------------------------
(* Poker categories as the rules of poker define them, for the claims.    *)

Suited(hand) == Cardinality({hand[i].suit : i \in DOMAIN hand}) = 1

Wheel == {2, 3, 4, 5, 14}

Consecutive(hand) ==
    /\ Cardinality(RankValues(hand)) = 5
    /\ \/ SetMax(RankValues(hand)) - SetMin(RankValues(hand)) = 4
       \/ RankValues(hand) = Wheel

\* the multiset of rank multiplicities, as the set of (rank, count) pairs
Multiplicity(hand, r) == Cardinality({i \in DOMAIN hand : hand[i].rank = r})
RanksHeld(hand, n) == {r \in Rank : Multiplicity(hand, r) = n}

PokerCategory(hand) ==
    IF Suited(hand) /\ RankValues(hand) = 10..14 THEN HAND_RANKINGS.RoyalFlush
    ELSE IF Suited(hand) /\ Consecutive(hand) THEN HAND_RANKINGS.StraightFlush
    ELSE IF RanksHeld(hand, 4) # {} THEN HAND_RANKINGS.FourOfAKind
    ELSE IF RanksHeld(hand, 3) # {} /\ RanksHeld(hand, 2) # {} THEN HAND_RANKINGS.FullHouse
    ELSE IF Suited(hand) THEN HAND_RANKINGS.Flush
    ELSE IF Consecutive(hand) THEN HAND_RANKINGS.Straight
    ELSE IF RanksHeld(hand, 3) # {} THEN HAND_RANKINGS.ThreeOfAKind
    ELSE IF Cardinality(RanksHeld(hand, 2)) = 2 THEN HAND_RANKINGS.TwoPair
    ELSE IF RanksHeld(hand, 2) # {} THEN HAND_RANKINGS.Pair
    ELSE HAND_RANKINGS.HighCard

\* One hand of each category to compare the evaluated hand with: the three
\* hands of test_hand_evaluation, the middle row of test_royalty_calculation,
\* a suited wheel and the lowest hand of each remaining category.
RoyalHearts == <<Card(14, HEARTS), Card(13, HEARTS), Card(12, HEARTS), Card(11, HEARTS), Card(10, HEARTS)>>
NineHighHearts == <<Card(9, HEARTS), Card(8, HEARTS), Card(7, HEARTS), Card(6, HEARTS), Card(5, HEARTS)>>
WheelHearts == <<Card(14, HEARTS), Card(2, HEARTS), Card(3, HEARTS), Card(4, HEARTS), Card(5, HEARTS)>>
FourAces == <<Card(14, HEARTS), Card(14, DIAMONDS), Card(14, CLUBS), Card(14, SPADES), Card(13, HEARTS)>>
FourKings == <<Card(13, HEARTS), Card(13, DIAMONDS), Card(13, CLUBS), Card(13, SPADES), Card(2, HEARTS)>>
ThreesFullOfTwos == <<Card(3, HEARTS), Card(3, DIAMONDS), Card(3, CLUBS), Card(2, SPADES), Card(2, HEARTS)>>
LowFlush == <<Card(2, CLUBS), Card(3, CLUBS), Card(4, CLUBS), Card(5, CLUBS), Card(7, CLUBS)>>
LowStraight == <<Card(2, CLUBS), Card(3, DIAMONDS), Card(4, CLUBS), Card(5, CLUBS), Card(6, CLUBS)>>
LowTrips == <<Card(2, CLUBS), Card(2, DIAMONDS), Card(2, HEARTS), Card(3, CLUBS), Card(4, CLUBS)>>
LowTwoPair == <<Card(2, CLUBS), Card(2, DIAMONDS), Card(3, HEARTS), Card(3, CLUBS), Card(4, CLUBS)>>
LowPair == <<Card(2, CLUBS), Card(2, DIAMONDS), Card(3, HEARTS), Card(4, CLUBS), Card(5, CLUBS)>>
LowHighCard == <<Card(2, CLUBS), Card(3, DIAMONDS), Card(4, HEARTS), Card(5, CLUBS), Card(7, CLUBS)>>

ExampleHands ==
    {RoyalHearts, NineHighHearts, WheelHearts, FourAces, FourKings, ThreesFullOfTwos,
     LowFlush, LowStraight, LowTrips, LowTwoPair, LowPair, LowHighCard}

Evaluated5 == op = "evaluate" /\ Len(cards) = 5

----------------------------------------------------------------------------
(* Claims about HandEvaluator.evaluate                                     *)

\* C1: of two 5-card hands, the one of the higher poker category evaluates
\* strictly lower: here the evaluated hand against each example hand.
C1_HigherCategoryLowerRank ==
    Evaluated5 =>
        \A other \in ExampleHands :
            /\ PokerCategory(cards) > PokerCategory(other) => ret < evaluate(other)
            /\ PokerCategory(cards) < PokerCategory(other) => ret > evaluate(other)

\* the band of each category (spec section 3)
InBand(category, v) ==
    CASE category = HAND_RANKINGS.RoyalFlush    -> v = 1
      [] category = HAND_RANKINGS.StraightFlush -> v \in 2..10
      [] category = HAND_RANKINGS.FourOfAKind   -> v \in 11..166
      [] category = HAND_RANKINGS.FullHouse     -> v \in 167..322
      [] category = HAND_RANKINGS.Flush         -> v \in 323..1599
      [] category = HAND_RANKINGS.Straight      -> v \in 1600..1609
      [] category = HAND_RANKINGS.ThreeOfAKind  -> v \in 1610..2467
      [] category = HAND_RANKINGS.TwoPair       -> v \in 2468..3325
      [] category = HAND_RANKINGS.Pair          -> v \in 3326..6185
      [] OTHER                                  -> v >= 6186

\* C2: the value evaluate returns for a 5-card hand lies in the band of the
\* hand's poker category.
C2_RankInCategoryBand == Evaluated5 => InBand(PokerCategory(cards), ret)

\* C3: every royal flush evaluates strictly lower than every straight flush,
\* and every straight flush strictly lower than every four of a kind: the
\* evaluated hand against each example hand, in both roles.
C3_RoyalBelowStraightFlushBelowQuads ==
    Evaluated5 =>
        \A other \in ExampleHands :
            LET mine == PokerCategory(cards)
                theirs == PokerCategory(other)
            IN  /\ mine = HAND_RANKINGS.RoyalFlush /\ theirs = HAND_RANKINGS.StraightFlush
                       => ret < evaluate(other)
                /\ mine = HAND_RANKINGS.StraightFlush /\ theirs = HAND_RANKINGS.RoyalFlush
                       => evaluate(other) < ret
                /\ mine = HAND_RANKINGS.StraightFlush /\ theirs = HAND_RANKINGS.FourOfAKind
                       => ret < evaluate(other)
                /\ mine = HAND_RANKINGS.FourOfAKind /\ theirs = HAND_RANKINGS.StraightFlush
                       => evaluate(other) < ret

\* the hand with its cards rearranged by the permutation p of its positions
Permuted(hand, p) == [i \in DOMAIN hand |-> hand[p[i]]]

\* C4: evaluate returns the same value for every order of the five cards.
C4_OrderIndependent ==
    Evaluated5 =>
        \A p \in Permutations(1..5) : evaluate(Permuted(cards, p)) = ret

\* C4 witness: an unsuited two-pair hand was evaluated, and the hand read
\* backwards (another order of the same cards) evaluates to the same value.
C4_Witness ==
    /\ Evaluated5
    /\ PokerCategory(cards) = HAND_RANKINGS.TwoPair
    /\ Permuted(cards, [i \in 1..5 |-> 6 - i]) # cards
    /\ evaluate(Permuted(cards, [i \in 1..5 |-> 6 - i])) = ret

----------------------------------------------------------------------------
(* Claims about RoyaltyCalculator on single rows                           *)

FrontRow == op = "calculate_front" /\ Len(cards) = 3

C7_FrontTripsFromDeuces ==
    FrontRow => \A R \in RanksHeld(cards, 3) : ret = 10 + (R - 2)

MiddleTable(category) ==
    CASE category = HAND_RANKINGS.RoyalFlush    -> 50
      [] category = HAND_RANKINGS.StraightFlush -> 30
      [] category = HAND_RANKINGS.FourOfAKind   -> 20
      [] category = HAND_RANKINGS.FullHouse     -> 12
      [] category = HAND_RANKINGS.Flush         -> 8
      [] category = HAND_RANKINGS.Straight      -> 8
      [] category = HAND_RANKINGS.ThreeOfAKind  -> 2
      [] OTHER                                  -> 0

BackTable(category) ==
    CASE category = HAND_RANKINGS.RoyalFlush    -> 25
      [] category = HAND_RANKINGS.StraightFlush -> 15
      [] category = HAND_RANKINGS.FourOfAKind   -> 10
      [] category = HAND_RANKINGS.FullHouse     -> 6
      [] category = HAND_RANKINGS.Flush         -> 4
      [] category = HAND_RANKINGS.Straight      -> 2
      [] OTHER                                  -> 0

\* C8: a full 5-card row pays the table value of its poker category, in the
\* middle and in the back.
C8_RowRoyaltyByCategory ==
    /\ (op = "calculate_middle" /\ Len(cards) = 5) => ret = MiddleTable(PokerCategory(cards))
    /\ (op = "calculate_back" /\ Len(cards) = 5) => ret = BackTable(PokerCategory(cards))

----------------------------------------------------------------------------
(* A Board filled by place_card.  The player holds the thirteen cards of a *)
(* layout, chooses the street of every placement freely and puts the next  *)
(* card meant for that street there; on a full street a spare card is      *)
(* tried.  The layouts combine example rows that share no card.            *)

AcesFront == <<Card(14, HEARTS), Card(14, DIAMONDS), Card(14, CLUBS)>>
DeucesNineFront == <<Card(2, HEARTS), Card(2, DIAMONDS), Card(9, CLUBS)>>
QueensFront == <<Card(12, SPADES), Card(12, CLUBS), Card(7, DIAMONDS)>>
HighFront == <<Card(3, CLUBS), Card(5, DIAMONDS), Card(8, SPADES)>>

SixesMiddle == <<Card(6, SPADES), Card(6, DIAMONDS), Card(6, CLUBS), Card(4, HEARTS), Card(11, CLUBS)>>
TensFullBack == <<Card(10, SPADES), Card(10, DIAMONDS), Card(10, CLUBS), Card(4, SPADES), Card(4, DIAMONDS)>>
SpadeFlushBack == <<Card(2, SPADES), Card(5, SPADES), Card(9, SPADES), Card(11, SPADES), Card(13, SPADES)>>
JacksPairBack == <<Card(11, HEARTS), Card(11, DIAMONDS), Card(3, SPADES), Card(8, DIAMONDS), Card(13, CLUBS)>>

FrontRows == {AcesFront, DeucesNineFront, QueensFront, HighFront}
MiddleRows == {FourKings, NineHighHearts, SixesMiddle, LowHighCard}
BackRows == {RoyalHearts, TensFullBack, SpadeFlushBack, JacksPairBack}

CardsOf(hand) == {hand[i] : i \in DOMAIN hand}

Layouts ==
    {l \in [front : FrontRows, middle : MiddleRows, back : BackRows] :
        Cardinality(CardsOf(l.front) \cup CardsOf(l.middle) \cup CardsOf(l.back)) = 13}

PlanRow(l, s) == IF s = FRONT THEN l.front ELSE IF s = MIDDLE THEN l.middle ELSE l.back

\* the first card of the deck that the layout does not use
SpareCard(l) ==
    LET used == CardsOf(l.front) \cup CardsOf(l.middle) \cup CardsOf(l.back)
        free == {c \in [rank : Rank, suit : Suit] : c \notin used}
    IN  CHOOSE c \in free : \A d \in free : DeckIndex(c) <= DeckIndex(d)

\* the card the player tries to put on street s
Offered(s) ==
    LET held == Len(_get_street(board, s).cards)
    IN  IF held < Len(PlanRow(plan, s)) THEN PlanRow(plan, s)[held + 1]
        ELSE SpareCard(plan)

InitBoard ==
    /\ cards = <<>>
    /\ op = "none"
    /\ ret = 0
    /\ raised = "none"
    /\ board = EmptyBoard
    /\ plan \in Layouts
    /\ street = FRONT
    /\ deck = <<>>
    /\ fantasy = Unused
    /\ game = Unused
    /\ input_cards = <<>>
    /\ arg = Unused
    /\ calls = 0
    /\ checked = <<>>
    /\ app = Unused
    /\ pc = Unused
    /\ client = Unused
    /\ net = Unused

PlaceCard ==
    \E s \in Street :
        LET placed == place_card(board, Offered(s), s)
        IN  /\ op' = "place_card"
            /\ street' = s
            /\ raised' = placed.raised
            /\ board' = placed.board
            /\ ret' = 0
            /\ UNCHANGED <<cards, plan, deck, fantasy, game, input_cards, arg, calls, checked, app, pc, client, net>>

Clear ==
    /\ op' = "clear"
    /\ board' = Board_clear(board)
    /\ raised' = "none"
    /\ ret' = 0
    /\ UNCHANGED <<cards, plan, street, deck, fantasy, game, input_cards, arg, calls, checked, app, pc, client, net>>

GetRoyalties ==
    /\ op' = "get_royalties"
    /\ ret' = get_royalties(board)
    /\ raised' = "none"
    /\ UNCHANGED <<cards, board, plan, street, deck, fantasy, game, input_cards, arg, calls, checked, app, pc, client, net>>

IsValid ==
    LET valid == is_valid(board)
    IN  /\ op' = "is_valid"
        /\ ret' = valid.ret
        /\ raised' = valid.raised
        /\ UNCHANGED <<cards, board, plan, street, deck, fantasy, game, input_cards, arg, calls, checked, app, pc, client, net>>

\* the board is encoded and decoded again; ret is the decoded board
FromDict ==
    LET decoded == Board_from_dict(Board_to_dict(board))
    IN  /\ op' = "from_dict"
        /\ ret' = decoded.board
        /\ raised' = decoded.raised
        /\ UNCHANGED <<cards, board, plan, street, deck, fantasy, game, input_cards, arg, calls, checked, app, pc, client, net>>

NextBoard == PlaceCard \/ Clear \/ GetRoyalties \/ IsValid \/ FromDict

SpecBoard == InitBoard /\ [][NextBoard]_vars

----------------------------------------------------------------------------
(* Claims about the Board                                                  *)

Held(s) == Len(_get_street(board, s).cards)

\* C9: a row holding fewer cards than its capacity pays no royalty, and
\* get_royalties returns 0 while some row is short of its capacity and the
\* sum of the three row royalties once all three rows are at capacity.
C9_BoardRoyalties ==
    /\ Held(FRONT) < 3 => calculate_front(board.front.cards) = 0
    /\ Held(MIDDLE) < 5 => calculate_middle(board.middle.cards) = 0
    /\ Held(BACK) < 5 => calculate_back(board.back.cards) = 0
    /\ op = "get_royalties" =>
          ret = IF Held(FRONT) = 3 /\ Held(MIDDLE) = 5 /\ Held(BACK) = 5
                THEN calculate_front(board.front.cards)
                         + calculate_middle(board.middle.cards)
                         + calculate_back(board.back.cards)
                ELSE 0

\* C9 witness: Ah Ad Ac over four Kings over tens full of fours, complete,
\* and get_royalties returned 24 + 20 + 6.
C9_Witness ==
    /\ op = "get_royalties"
    /\ board.front.cards = AcesFront
    /\ board.middle.cards = FourKings
    /\ board.back.cards = TensFullBack
    /\ ret = 50

\* C10: no row ever holds more cards than its capacity (3, 5, 5), and a
\* place_card aimed at a row already at capacity raises and leaves the three
\* rows as they were.
C10_RowCapacity ==
    /\ [](Held(FRONT) <= 3 /\ Held(MIDDLE) <= 5 /\ Held(BACK) <= 5)
    /\ [][(op' = "place_card" /\ Held(street') >= _get_street(EmptyBoard, street').max_cards)
             => (raised' = "ValueError" /\ board' = board)]_vars

\* C10 witness: a place_card on the full front row was refused.
C10_Witness ==
    /\ op = "place_card"
    /\ street = FRONT
    /\ raised = "ValueError"
    /\ Held(FRONT) = 3

\* C17: encoding then decoding is the identity: Card.from_string(c.to_string())
\* is c for each of the 52 cards, and Board.from_dict(b.to_dict()) is a board
\* with the same cards in the same order in each of the three rows, for
\* every board b reachable by place_card.
C17_RoundTrip ==
    /\ \A c \in [rank : Rank, suit : Suit] :
          from_string(to_string(c)) = [raised |-> "none", card |-> c]
    /\ op = "from_dict" =>
          /\ raised = "none"
          /\ \A s \in Street : _get_street(ret, s).cards = _get_street(board, s).cards

\* the evaluator's rank of the row of street s
RowRank(s) == evaluate(_get_street(board, s).cards)

\* C11: is_valid returns false for every incomplete board; on a complete
\* board whose back row is weaker (higher rank number) than its middle row,
\* or whose middle row is weaker than its front row, it never returns true,
\* and it returns true when rank(back) <= rank(middle) <= rank(front).
C11_IsValid ==
    op = "is_valid" =>
        /\ ~is_complete(board) => (raised = "none" /\ ret = FALSE)
        /\ (is_complete(board)
              /\ (RowRank(BACK) > RowRank(MIDDLE) \/ RowRank(MIDDLE) > RowRank(FRONT)))
             => ~(raised = "none" /\ ret = TRUE)
        /\ (is_complete(board)
              /\ RowRank(BACK) <= RowRank(MIDDLE) /\ RowRank(MIDDLE) <= RowRank(FRONT))
             => (raised = "none" /\ ret = TRUE)

----------------------------------------------------------------------------
(* core/deck.py.  A deck is the list Deck._cards, its first element the top *)
(* card.  Deck._original_cards is a copy of the created deck that no        *)
(* method changes.                                                          *)

_create_deck ==
    [i \in 1..(Cardinality(Rank) * Cardinality(Suit)) |->
        Card(TWO + ((i - 1) \div Cardinality(Suit)), ((i - 1) % Cardinality(Suit)) + 1)]

_original_cards == _create_deck

\* the number of top cards that a shuffle rearranges
ShuffleSpan == 2

\* Deck.shuffle: random.shuffle may leave any arrangement; the outcomes are
\* the arrangements that permute the top ShuffleSpan cards
shuffle(d) ==
    LET k == IF Len(d) < ShuffleSpan THEN Len(d) ELSE ShuffleSpan
    IN  {[i \in 1..Len(d) |-> IF i <= k THEN d[p[i]] ELSE d[i]] : p \in Permutations(1..k)}

reset(d) == _original_cards

\* mutant: draw hands out one card fewer than asked for
draw_one_short(d, count) ==
    IF count > Len(d)
    THEN [raised |-> "ValueError", drawn |-> <<>>, deck |-> d]
    ELSE [raised |-> "none", drawn |-> SubSeq(d, 1, count - 1),
          deck |-> SubSeq(d, count + 1, Len(d))]

\* mutant: the drawn cards stay in the deck, as in peek
draw_as_peek(d, count) ==
    IF count > Len(d)
    THEN [raised |-> "ValueError", drawn |-> <<>>, deck |-> d]
    ELSE [raised |-> "none", drawn |-> SubSeq(d, 1, count), deck |-> d]

\* Deck.draw: the exception raised, the cards returned, the deck afterwards
draw(d, count) ==
    IF count > Len(d)
    THEN [raised |-> "ValueError", drawn |-> <<>>, deck |-> d]
    ELSE [raised |-> "none", drawn |-> SubSeq(d, 1, count),
          deck |-> SubSeq(d, count + 1, Len(d))]

peek(d, count) ==
    IF count > Len(d)
    THEN [raised |-> "ValueError", drawn |-> <<>>, deck |-> d]
    ELSE [raised |-> "none", drawn |-> SubSeq(d, 1, count), deck |-> d]

insert(d, cs, position) ==
    IF position > Len(d)
    THEN [raised |-> "ValueError", deck |-> d]
    ELSE [raised |-> "none",
          deck |-> SubSeq(d, 1, position) \o cs \o SubSeq(d, position + 1, Len(d))]

\* list.remove(x) on a list that holds x: the first occurrence goes
list_remove(l, x) ==
    LET i == CHOOSE j \in 1..Len(l) : l[j] = x /\ \A k \in 1..(j - 1) : l[k] # x
    IN  SubSeq(l, 1, i - 1) \o SubSeq(l, i + 1, Len(l))

\* Deck.remove: the cards are removed one by one, and the first card that
\* is not in the deck raises with the earlier ones already removed
RECURSIVE remove(_, _)
remove(d, cs) ==
    IF cs = <<>> THEN [raised |-> "none", deck |-> d]
    ELSE IF \A j \in 1..Len(d) : d[j] # Head(cs)
         THEN [raised |-> "ValueError", deck |-> d]
         ELSE remove(list_remove(d, Head(cs)), Tail(cs))

----------------------------------------------------------------------------
(* A Deck, the cards taken from it and a Board.  The holder draws or       *)
(* removes cards from the deck, puts cards it holds back into the deck or  *)
(* onto the board, shuffles and resets.  `cards` is the holder's hand.     *)

\* the number of cards out of the deck at once
MaxTaken == 2

\* the number of calls the holder makes
MaxCalls == 6

OnBoard == board.front.cards \o board.middle.cards \o board.back.cards

Taken == Len(cards) + Len(OnBoard)

InitDeck ==
    /\ deck = _create_deck
    /\ cards = <<>>
    /\ board = EmptyBoard
    /\ op = "none"
    /\ ret = 0
    /\ raised = "none"
    /\ plan = NoPlan
    /\ street = FRONT
    /\ fantasy = Unused
    /\ game = Unused
    /\ input_cards = <<>>
    /\ arg = Unused
    /\ calls = 0
    /\ checked = <<>>
    /\ app = Unused
    /\ pc = Unused
    /\ client = Unused
    /\ net = Unused

Draw ==
    \E count \in (1..MaxTaken) \cup {Len(deck) + 1} :
        LET d == draw(deck, count)
        IN  /\ Taken + Len(d.drawn) <= MaxTaken
            /\ op' = "draw"
            /\ raised' = d.raised
            /\ deck' = d.deck
            /\ cards' = cards \o d.drawn
            /\ UNCHANGED <<ret, board, plan, street, fantasy, game, input_cards, arg, checked, app, pc, client, net>>
            /\ calls < MaxCalls
            /\ calls' = calls + 1

Shuffle ==
    /\ deck' \in shuffle(deck)
    /\ op' = "shuffle"
    /\ raised' = "none"
    /\ UNCHANGED <<cards, ret, board, plan, street, fantasy, game, input_cards, arg, checked, app, pc, client, net>>
    /\ calls < MaxCalls
    /\ calls' = calls + 1

Reset ==
    /\ deck' = reset(deck)
    /\ op' = "reset"
    /\ raised' = "none"
    /\ UNCHANGED <<cards, ret, board, plan, street, fantasy, game, input_cards, arg, checked, app, pc, client, net>>
    /\ calls < MaxCalls
    /\ calls' = calls + 1

\* the lists handed to remove: one or two of the top two cards of the deck,
\* or the top card followed by a card of the hand
RemoveLists ==
    LET top == {deck[i] : i \in 1..(IF Len(deck) < 2 THEN Len(deck) ELSE 2)}
    IN  {<<c>> : c \in top}
          \cup {l \in {<<c, d>> : c \in top, d \in top \cup CardsOf(cards)} : l[1] # l[2]}

Remove ==
    \E cs \in RemoveLists :
        LET r == remove(deck, cs)
            gone == SubSeq(cs, 1, Len(deck) - Len(r.deck))
        IN  /\ Taken + Len(gone) <= MaxTaken
            /\ op' = "remove"
            /\ raised' = r.raised
            /\ deck' = r.deck
            /\ cards' = cards \o gone
            /\ UNCHANGED <<ret, board, plan, street, fantasy, game, input_cards, arg, checked, app, pc, client, net>>
            /\ calls < MaxCalls
            /\ calls' = calls + 1

\* the holder gives the first n cards of its hand back to the deck
Insert ==
    \E n \in 1..Len(cards), position \in {0, 1, Len(deck) + 1} :
        LET r == insert(deck, SubSeq(cards, 1, n), position)
        IN  /\ op' = "insert"
            /\ raised' = r.raised
            /\ deck' = r.deck
            /\ cards' = IF r.raised = "none" THEN SubSeq(cards, n + 1, Len(cards)) ELSE cards
            /\ UNCHANGED <<ret, board, plan, street, fantasy, game, input_cards, arg, checked, app, pc, client, net>>
            /\ calls < MaxCalls
            /\ calls' = calls + 1

\* the holder puts a card of its hand on a street of the board
PlaceTaken ==
    \E i \in 1..Len(cards), s \in Street :
        LET placed == place_card(board, cards[i], s)
        IN  /\ op' = "place_card"
            /\ street' = s
            /\ raised' = placed.raised
            /\ board' = placed.board
            /\ cards' = IF placed.raised = "none"
                         THEN SubSeq(cards, 1, i - 1) \o SubSeq(cards, i + 1, Len(cards))
                         ELSE cards
            /\ UNCHANGED <<ret, deck, plan, fantasy, game, input_cards, arg, checked, app, pc, client, net>>
            /\ calls < MaxCalls
            /\ calls' = calls + 1

NextDeck == Draw \/ Shuffle \/ Reset \/ Remove \/ Insert \/ PlaceTaken

SpecDeck == InitDeck /\ [][NextDeck]_vars

\* no card occurs twice in the list
Distinct(l) == Cardinality(CardsOf(l)) = Len(l)

\* C12 (as stated): in every state reachable through draw, shuffle, remove,
\* insert, reset and place_card of cards taken from the deck, no card
\* appears more than once across the remaining deck and the three rows of
\* the board.
C12_NoDuplicateCards == Distinct(deck \o OnBoard)

\* C12 (amended): no card appears more than once across the deck, the cards
\* taken and the rows of the board after construction, and draw, shuffle,
\* remove, insert and place_card keep it so; reset keeps it so only when no
\* card is out of the deck.
C12_NoDuplicatesBetweenResets ==
    /\ Distinct(_create_deck)
    /\ [][(Distinct(deck \o cards \o OnBoard) /\ (op' = "reset" => Taken = 0))
             => Distinct(deck' \o cards' \o OnBoard')]_vars

\* C12 witness: a card drawn from a shuffled deck lies on the front row, a
\* second one was put back into the deck, and no card occurs twice.
C12_Witness ==
    /\ op = "insert"
    /\ raised = "none"
    /\ Len(board.front.cards) = 1
    /\ board.front.cards[1] # _create_deck[1]
    /\ Len(deck) = 51
    /\ Distinct(deck \o cards \o OnBoard)

----------------------------------------------------------------------------
(* core/fantasy.py *)

NORMAL == "normal"
PROGRESSIVE == "progressive"
FantasyMode == {NORMAL, PROGRESSIVE}

\* FantasyTrigger: the name of a member and the card count of its value
QQ == [name |-> "QQ", cards |-> 14]
KK == [name |-> "KK", cards |-> 15]
AA == [name |-> "AA", cards |-> 17]
THREE_OF_KIND == [name |-> "THREE_OF_KIND", cards |-> 18]
FantasyTrigger == {QQ, KK, AA, THREE_OF_KIND}

None == [name |-> "None", cards |-> 0]

FantasyState ==
    [active |-> FALSE,
     cards_count |-> 13,
     progressive_bonus |-> None,
     consecutive_fantasies |-> 0,
     history |-> <<>>]

\* FantasyManager.__init__; statistics is a defaultdict(int), every key of
\* which reads 0 until it is written
FantasyManager(mode) ==
    [mode |-> mode,
     state |-> FantasyState,
     statistics |-> [total_entries |-> 0,
                     successful_exits |-> 0,
                     failed_exits |-> 0,
                     max_consecutive |-> 0,
                     progressive |-> [t \in {"QQ", "KK", "AA", "THREE_OF_KIND"} |-> 0]]]

\* card.rank == 'Q': card.rank is a member of the Enum Rank, which is equal
\* to nothing but itself, whatever the character
RankEqualsChar(rank, char) == FALSE

_check_progressive_trigger(cs) ==
    IF Len(cs) < 2 THEN None
    ELSE LET ranks == [i \in DOMAIN cs |-> cs[i].rank]
             count == Cardinality({i \in DOMAIN ranks : ranks[i] = ranks[1]})
         IN  IF count >= 2 /\ RankEqualsChar(ranks[1], "Q") THEN QQ
             ELSE IF count >= 2 /\ RankEqualsChar(ranks[1], "K") THEN KK
             ELSE IF count >= 2 /\ RankEqualsChar(ranks[1], "A") THEN AA
             ELSE IF Len(cs) = 3 /\ count = 3 THEN THREE_OF_KIND
             ELSE None

\* FantasyManager.check_fantasy_entry: the exception raised, the value
\* returned and the manager afterwards
check_fantasy_entry(m, b) ==
    LET valid == is_valid(b)
    IN  IF valid.raised # "none" THEN [raised |-> valid.raised, ret |-> FALSE, manager |-> m]
        ELSE IF ~valid.ret THEN [raised |-> "none", ret |-> FALSE, manager |-> m]
        ELSE LET trigger == _check_progressive_trigger(b.front.cards)
                 m1 == IF m.mode = PROGRESSIVE /\ trigger # None
                       THEN [m EXCEPT !.state.progressive_bonus = trigger]
                       ELSE m
                 royalties == get_royalties(b)
                 is_fantasy == royalties >= 6
                 m2 == IF is_fantasy
                       THEN [m1 EXCEPT !.statistics.total_entries = @ + 1]
                       ELSE m1
             IN  [raised |-> "none", ret |-> is_fantasy, manager |-> m2]

\* FantasyManager.enter_fantasy: the value returned and the manager afterwards
enter_fantasy(m) ==
    LET bonus == m.state.progressive_bonus
        consecutive == m.state.consecutive_fantasies + 1
        progressive == m.mode = PROGRESSIVE /\ bonus # None
        cards_count == IF progressive THEN bonus.cards ELSE 13
        record == [trigger |-> IF bonus # None THEN bonus.name ELSE "normal",
                   cards_count |-> cards_count,
                   consecutive |-> consecutive]
    IN  [ret |-> cards_count,
         manager |->
            [m EXCEPT !.state.active = TRUE,
                      !.state.consecutive_fantasies = consecutive,
                      !.state.cards_count = cards_count,
                      !.state.history = Append(@, record),
                      !.statistics.progressive =
                          IF progressive THEN [@ EXCEPT ![bonus.name] = @ + 1] ELSE @]]

\* mutant: a failed exit leaves the count of consecutive fantasies
exit_fantasy_without_reset(m, success) ==
    LET m1 == IF success
              THEN [m EXCEPT !.statistics.successful_exits = @ + 1,
                             !.statistics.max_consecutive =
                                 IF m.state.consecutive_fantasies > @
                                 THEN m.state.consecutive_fantasies ELSE @]
              ELSE [m EXCEPT !.statistics.failed_exits = @ + 1]
    IN  [m1 EXCEPT !.state.active = FALSE, !.state.progressive_bonus = None]

\* FantasyManager.exit_fantasy: the manager afterwards
exit_fantasy(m, success) ==
    LET m1 == IF success
              THEN [m EXCEPT !.statistics.successful_exits = @ + 1,
                             !.statistics.max_consecutive =
                                 IF m.state.consecutive_fantasies > @
                                 THEN m.state.consecutive_fantasies ELSE @]
              ELSE [m EXCEPT !.state.consecutive_fantasies = 0,
                             !.statistics.failed_exits = @ + 1]
    IN  [m1 EXCEPT !.state.active = FALSE, !.state.progressive_bonus = None]

----------------------------------------------------------------------------
(* A FantasyManager and the board of its side.  The board holds the rows   *)
(* of a layout, all thirteen cards or all but the last card of the back    *)
(* row; the manager is asked about it, entered and left in any order.      *)

\* the number of calls made on the manager
MaxFantasyCalls == 5

\* the board after place_card has put the first n cards of the back row and
\* all cards of the other rows of layout l
Placed(l, n) ==
    [front  |-> [cards |-> l.front, max_cards |-> 3],
     middle |-> [cards |-> l.middle, max_cards |-> 5],
     back   |-> [cards |-> SubSeq(l.back, 1, n), max_cards |-> 5]]

InitFantasy ==
    /\ plan \in Layouts
    /\ board \in {Placed(plan, 5), Placed(plan, 4)}
    /\ fantasy \in {FantasyManager(mode) : mode \in FantasyMode}
    /\ cards = <<>>
    /\ op = "none"
    /\ ret = 0
    /\ raised = "none"
    /\ street = FRONT
    /\ deck = <<>>
    /\ game = Unused
    /\ input_cards = <<>>
    /\ arg = Unused
    /\ calls = 0
    /\ checked = <<>>
    /\ app = Unused
    /\ pc = Unused
    /\ client = Unused
    /\ net = Unused

CheckFantasyEntry ==
    LET answer == check_fantasy_entry(fantasy, board)
    IN  /\ calls < MaxFantasyCalls
        /\ calls' = calls + 1
        /\ op' = "check_fantasy_entry"
        /\ ret' = answer.ret
        /\ raised' = answer.raised
        /\ fantasy' = answer.manager
        /\ arg' = Unused
        /\ checked' = Append(checked, board)
        /\ UNCHANGED <<cards, board, plan, street, deck, game, input_cards, app, pc, client, net>>

EnterFantasy ==
    LET entered == enter_fantasy(fantasy)
    IN  /\ calls < MaxFantasyCalls
        /\ calls' = calls + 1
        /\ op' = "enter_fantasy"
        /\ ret' = entered.ret
        /\ raised' = "none"
        /\ fantasy' = entered.manager
        /\ arg' = Unused
        /\ UNCHANGED <<cards, board, plan, street, deck, game, input_cards, checked, app, pc, client, net>>

ExitFantasy ==
    \E success \in BOOLEAN :
        /\ calls < MaxFantasyCalls
        /\ calls' = calls + 1
        /\ op' = "exit_fantasy"
        /\ arg' = success
        /\ ret' = 0
        /\ raised' = "none"
        /\ fantasy' = exit_fantasy(fantasy, success)
        /\ checked' = <<>>
        /\ UNCHANGED <<cards, board, plan, street, deck, game, input_cards, app, pc, client, net>>

NextFantasy == CheckFantasyEntry \/ EnterFantasy \/ ExitFantasy

SpecFantasy == InitFantasy /\ [][NextFantasy]_vars

----------------------------------------------------------------------------
(* A FantasyManager over several hands.  Between two hands the board is    *)
(* cleared and the side fills it with the rows of another layout; the      *)
(* manager stays.                                                          *)

HandLayouts ==
    {l \in [front : FrontRows, middle : {TensFullBack}, back : {FourKings}] :
        Cardinality(CardsOf(l.front) \cup CardsOf(l.middle) \cup CardsOf(l.back)) = 13}

InitFantasyHands ==
    /\ plan \in HandLayouts
    /\ board \in {Placed(plan, 5), Placed(plan, 4)}
    /\ fantasy \in {FantasyManager(mode) : mode \in FantasyMode}
    /\ cards = <<>>
    /\ op = "none"
    /\ ret = 0
    /\ raised = "none"
    /\ street = FRONT
    /\ deck = <<>>
    /\ game = Unused
    /\ input_cards = <<>>
    /\ arg = Unused
    /\ calls = 0
    /\ checked = <<>>
    /\ app = Unused
    /\ pc = Unused
    /\ client = Unused
    /\ net = Unused

\* Board.clear and the placements of the next hand
NextHand ==
    /\ calls < MaxFantasyCalls
    /\ calls' = calls + 1
    /\ op' = "next_hand"
    /\ plan' \in HandLayouts
    /\ board' \in {Placed(plan', 5), Placed(plan', 4)}
    /\ ret' = 0
    /\ raised' = "none"
    /\ arg' = Unused
    /\ UNCHANGED <<cards, street, deck, fantasy, game, input_cards, checked, app, pc, client, net>>

NextFantasyHands == CheckFantasyEntry \/ EnterFantasy \/ ExitFantasy \/ NextHand

SpecFantasyHands == InitFantasyHands /\ [][NextFantasyHands]_vars

----------------------------------------------------------------------------
(* Claims about the FantasyManager                                         *)

\* the board is complete and its rows are ordered by the evaluator's ranks
CompleteAndValid ==
    /\ is_complete(board)
    /\ RowRank(BACK) <= RowRank(MIDDLE)
    /\ RowRank(MIDDLE) <= RowRank(FRONT)

\* the progressive trigger of a front row: a pair of Queens, Kings or Aces,
\* or three of a kind
FrontTrigger(front) ==
    IF Len(front) = 3 /\ RanksHeld(front, 3) # {} THEN THREE_OF_KIND
    ELSE IF 12 \in RanksHeld(front, 2) THEN QQ
    ELSE IF 13 \in RanksHeld(front, 2) THEN KK
    ELSE IF 14 \in RanksHeld(front, 2) THEN AA
    ELSE None

\* C13: on a complete, valid board check_fantasy_entry returns true when the
\* royalty total is at least 6, and false when the total is below 6 and
\* there is no progressive trigger.
C13_CheckEntryOnValidBoard ==
    (op = "check_fantasy_entry" /\ CompleteAndValid) =>
        /\ get_royalties(board) >= 6 => (raised = "none" /\ ret = TRUE)
        /\ (get_royalties(board) < 6
              /\ (fantasy.mode = NORMAL \/ FrontTrigger(board.front.cards) = None))
             => (raised = "none" /\ ret = FALSE)

ProgressiveCount(front) ==
    IF FrontTrigger(front) = None THEN 13 ELSE FrontTrigger(front).cards

\* C15: in progressive mode enter_fantasy, called after check_fantasy_entry
\* on a qualifying board (complete, valid, royalty total at least 6), returns
\* 14 for a front pair of Queens, 15 for Kings, 17 for Aces, 18 for trips
\* and 13 otherwise; in normal mode it returns 13.
C15_ProgressiveCardCount ==
    [][op' = "enter_fantasy" =>
          /\ fantasy.mode = NORMAL => ret' = 13
          /\ (fantasy.mode = PROGRESSIVE /\ op = "check_fantasy_entry"
                /\ CompleteAndValid /\ get_royalties(board) >= 6)
               => ret' = ProgressiveCount(board.front.cards)]_vars

\* C16: enter_fantasy sets active and raises consecutive_fantasies by exactly
\* 1; exit_fantasy clears active and the progressive bonus, resets
\* consecutive_fantasies to 0 when success is false, and when success is true
\* leaves consecutive_fantasies and sets the running maximum to the larger
\* of its previous value and consecutive_fantasies.
C16_EnterAndExit ==
    [][/\ op' = "enter_fantasy" =>
              /\ fantasy'.state.active
              /\ fantasy'.state.consecutive_fantasies = fantasy.state.consecutive_fantasies + 1
       /\ op' = "exit_fantasy" =>
              /\ ~fantasy'.state.active
              /\ fantasy'.state.progressive_bonus = None
              /\ arg' = FALSE => fantasy'.state.consecutive_fantasies = 0
              /\ arg' = TRUE =>
                    /\ fantasy'.state.consecutive_fantasies = fantasy.state.consecutive_fantasies
                    /\ fantasy'.statistics.max_consecutive =
                          IF fantasy.state.consecutive_fantasies > fantasy.statistics.max_consecutive
                          THEN fantasy.state.consecutive_fantasies
                          ELSE fantasy.statistics.max_consecutive]_vars

\* C16 witness: two fantasies in a row, the second left with success: the
\* count stays 2 and the running maximum becomes 2.
C16_Witness ==
    /\ op = "exit_fantasy"
    /\ arg = TRUE
    /\ ~fantasy.state.active
    /\ fantasy.state.consecutive_fantasies = 2
    /\ fantasy.statistics.max_consecutive = 2

----------------------------------------------------------------------------
(* utils/game_state.py.  A GameState is its board and its input_cards; the *)
(* other fields play no part in apply_move.                                *)

\* mutant: the card leaves the hand before the board is asked to take it
apply_move_removing_first(b, hand, mv) ==
    IF \A i \in DOMAIN hand : hand[i] # mv.card
    THEN [ret |-> FALSE, board |-> b, input_cards |-> hand]
    ELSE LET placed == place_card(b, mv.card, mv.street)
         IN  IF placed.raised # "none"
             THEN [ret |-> FALSE, board |-> b, input_cards |-> list_remove(hand, mv.card)]
             ELSE [ret |-> TRUE, board |-> placed.board,
                   input_cards |-> list_remove(hand, mv.card)]

\* GameState.apply_move: the value returned, the board and the hand
\* afterwards; whatever place_card raises is caught and answered by False
apply_move(b, hand, mv) ==
    IF \A i \in DOMAIN hand : hand[i] # mv.card
    THEN [ret |-> FALSE, board |-> b, input_cards |-> hand]
    ELSE LET placed == place_card(b, mv.card, mv.street)
         IN  IF placed.raised # "none"
             THEN [ret |-> FALSE, board |-> b, input_cards |-> hand]
             ELSE [ret |-> TRUE, board |-> placed.board,
                   input_cards |-> list_remove(hand, mv.card)]

----------------------------------------------------------------------------
(* A GameState whose hand is the top of a new deck.  Any of these cards,   *)
(* or the card after them, is moved to any street.                         *)

\* the number of cards in the hand at the start
MaxInput == 4

InitMove ==
    /\ board = EmptyBoard
    /\ input_cards = SubSeq(_create_deck, 1, MaxInput)
    /\ arg = Unused
    /\ op = "none"
    /\ ret = 0
    /\ raised = "none"
    /\ cards = <<>>
    /\ plan = NoPlan
    /\ street = FRONT
    /\ deck = <<>>
    /\ fantasy = Unused
    /\ game = Unused
    /\ calls = 0
    /\ checked = <<>>
    /\ app = Unused
    /\ pc = Unused
    /\ client = Unused
    /\ net = Unused

ApplyMove ==
    \E i \in 1..(MaxInput + 1), s \in Street :
        LET mv == [card |-> _create_deck[i], street |-> s]
            applied == apply_move(board, input_cards, mv)
        IN  /\ op' = "apply_move"
            /\ arg' = mv
            /\ ret' = applied.ret
            /\ raised' = "none"
            /\ board' = applied.board
            /\ input_cards' = applied.input_cards
            /\ UNCHANGED <<cards, plan, street, deck, fantasy, game, calls, checked, app, pc, client, net>>

\* the moves that GameState.get_available_moves lists
get_available_moves(b, hand) ==
    {[card |-> hand[i], street |-> s] : i \in DOMAIN hand, s \in get_free_streets(b)}

GetAvailableMoves ==
    /\ op' = "get_available_moves"
    /\ ret' = get_available_moves(board, input_cards)
    /\ raised' = "none"
    /\ arg' = Unused
    /\ UNCHANGED <<cards, board, plan, street, deck, fantasy, game, input_cards, calls, checked, app, pc, client, net>>

NextMove == ApplyMove \/ GetAvailableMoves

SpecMove == InitMove /\ [][NextMove]_vars

\* C18: apply_move either succeeds, and then exactly that card has left the
\* hand (one card fewer) and is the new last card of the target row, the
\* other rows as before; or it fails, the card being absent from the hand
\* or the target row full, and the hand and the board are as before.
C18_MoveIsAtomic ==
    [][op' = "apply_move" =>
          \/ /\ ret' = TRUE
             /\ arg'.card \in CardsOf(input_cards)
             /\ Len(input_cards') = Len(input_cards) - 1
             /\ CardsOf(input_cards') = CardsOf(input_cards) \ {arg'.card}
             /\ _get_street(board', arg'.street).cards
                   = Append(_get_street(board, arg'.street).cards, arg'.card)
             /\ \A s \in Street \ {arg'.street} : _get_street(board', s) = _get_street(board, s)
          \/ /\ ret' = FALSE
             /\ \/ arg'.card \notin CardsOf(input_cards)
                \/ Len(_get_street(board, arg'.street).cards)
                      = _get_street(EmptyBoard, arg'.street).max_cards
             /\ input_cards' = input_cards
             /\ board' = board]_vars

\* C18 witness: a card of the hand was refused by the full front row, after
\* three moves that succeeded.
C18_Witness ==
    /\ op = "apply_move"
    /\ ret = FALSE
    /\ arg.street = FRONT
    /\ arg.card \in CardsOf(input_cards)
    /\ Len(board.front.cards) = 3
    /\ Len(input_cards) = MaxInput - 3

----------------------------------------------------------------------------
(* The Game of tests/test_game.py and training/trainer.py.  Its class is   *)
(* not among the sources; it is written here from section 4.5 of the       *)
(* specification and from what the tests and the trainer rely on.  It uses *)
(* the Deck and the Board above.                                           *)

WAITING == "WAITING"
IN_PROGRESS == "IN_PROGRESS"
COMPLETED == "COMPLETED"
ERROR == "ERROR"

Players == {1, 2}

Opponent(player) == 3 - player

\* the winner of a result that names no winner
NoWinner == 0

\* Game(agent1, agent2): nothing dealt, player 1 to move
NewGame ==
    [state |-> WAITING,
     current_player |-> 1,
     player_cards |-> [p \in Players |-> <<>>],
     player_board |-> [p \in Players |-> EmptyBoard],
     deck |-> _create_deck,
     history |-> <<>>]

\* every side receives count cards from the deck, player 1 first
Deal(g, count) ==
    LET first == draw(g.deck, count)
        second == draw(first.deck, count)
    IN  IF first.raised # "none" \/ second.raised # "none"
        THEN [g EXCEPT !.state = ERROR]
        ELSE [g EXCEPT !.deck = second.deck,
                       !.player_cards = [p \in Players |->
                           g.player_cards[p] \o (IF p = 1 THEN first.drawn ELSE second.drawn)]]

\* Game.start: WAITING -> IN_PROGRESS, five cards to each side
start(g) ==
    IF g.state # WAITING THEN [raised |-> "InvalidState", game |-> g]
    ELSE [raised |-> "none", game |-> Deal([g EXCEPT !.state = IN_PROGRESS], 5)]

\* Game.get_legal_moves: the held cards crossed with the rows that are not full
get_legal_moves(g, player) ==
    {[card |-> g.player_cards[player][i], street |-> s] :
        i \in DOMAIN g.player_cards[player],
        s \in get_free_streets(g.player_board[player])}

\* legal_moves[0]: the first held card on the first row that is not full
FirstLegalMove(g, player) ==
    [card |-> g.player_cards[player][1],
     street |-> SetMin(get_free_streets(g.player_board[player]))]

\* after a move: a finished hand is COMPLETED, and a round that both sides
\* have played out is followed by a round of one card each
AfterMove(g) ==
    IF \E p \in Players : g.player_cards[p] # <<>> THEN g
    ELSE IF \A p \in Players : is_complete(g.player_board[p])
         THEN [g EXCEPT !.state = COMPLETED]
         ELSE Deal(g, 1)

\* Game.make_move: the value returned, the failure named, the game afterwards
make_move(g, player, card, s) ==
    IF g.state # IN_PROGRESS THEN [ret |-> FALSE, raised |-> "InvalidState", game |-> g]
    ELSE IF player # g.current_player THEN [ret |-> FALSE, raised |-> "NotYourTurn", game |-> g]
    ELSE IF \A i \in DOMAIN g.player_cards[player] : g.player_cards[player][i] # card
         THEN [ret |-> FALSE, raised |-> "CardNotAvailable", game |-> g]
    ELSE LET placed == place_card(g.player_board[player], card, s)
         IN  IF placed.raised # "none" THEN [ret |-> FALSE, raised |-> "RowFull", game |-> g]
             ELSE [ret |-> TRUE, raised |-> "none",
                   game |-> AfterMove(
                       [g EXCEPT !.player_cards[player] = list_remove(@, card),
                                 !.player_board[player] = placed.board,
                                 !.history = Append(@, [player |-> player, card |-> card, street |-> s]),
                                 !.current_player = Opponent(player)])]

is_game_over(g) == g.state = COMPLETED

\* a complete board fouls when its rows are not ordered back, middle, front
\* by the evaluator's rank
Foul(b) ==
    ~(evaluate(b.back.cards) <= evaluate(b.middle.cards)
        /\ evaluate(b.middle.cards) <= evaluate(b.front.cards))

\* the rows in which board b holds the strictly stronger hand
RowsWon(b, other) ==
    {s \in Street : evaluate(_get_street(b, s).cards) < evaluate(_get_street(other, s).cards)}

Score(b, other) ==
    IF Foul(b) THEN 0
    ELSE IF Foul(other) THEN 6 + get_royalties(b)
    ELSE Cardinality(RowsWon(b, other)) + get_royalties(b)
           + (IF RowsWon(b, other) = Street THEN 6 ELSE 0)

\* Game.get_result: the failure named and the result
get_result(g) ==
    LET b1 == g.player_board[1]
        b2 == g.player_board[2]
    IN  IF ~(is_complete(b1) /\ is_complete(b2))
        THEN [raised |-> "BoardIncomplete",
              result |-> [player1_score |-> 0, player2_score |-> 0, winner |-> NoWinner]]
        ELSE [raised |-> "none",
              result |-> [player1_score |-> Score(b1, b2),
                          player2_score |-> Score(b2, b1),
                          winner |-> IF Score(b1, b2) > Score(b2, b1) THEN 1
                                     ELSE IF Score(b2, b1) > Score(b1, b2) THEN 2
                                     ELSE NoWinner]]

----------------------------------------------------------------------------
(* A Game played by two sides.  For the first MaxFreeMoves moves the mover *)
(* picks any of its legal moves, afterwards the first one, as the test of  *)
(* a whole game does.  Moves that must be refused are tried as well.       *)

MaxFreeMoves == 2

InitGame ==
    /\ game = NewGame
    /\ op = "none"
    /\ ret = 0
    /\ raised = "none"
    /\ arg = Unused
    /\ cards = <<>>
    /\ board = EmptyBoard
    /\ plan = NoPlan
    /\ street = FRONT
    /\ deck = <<>>
    /\ fantasy = Unused
    /\ input_cards = <<>>
    /\ calls = 0
    /\ checked = <<>>
    /\ app = Unused
    /\ pc = Unused
    /\ client = Unused
    /\ net = Unused

Start ==
    LET started == start(game)
    IN  /\ op' = "start"
        /\ raised' = started.raised
        /\ game' = started.game
        /\ ret' = 0
        /\ arg' = Unused
        /\ UNCHANGED <<cards, board, plan, street, deck, fantasy, input_cards, calls, checked, app, pc, client, net>>

\* the moves the mover chooses among
Choices ==
    IF Len(game.history) < MaxFreeMoves
    THEN get_legal_moves(game, game.current_player)
    ELSE {FirstLegalMove(game, game.current_player)}

MakeMove ==
    /\ game.state = IN_PROGRESS
    /\ \E mv \in Choices :
          LET moved == make_move(game, game.current_player, mv.card, mv.street)
          IN  /\ op' = "make_move"
              /\ arg' = [player |-> game.current_player, card |-> mv.card, street |-> mv.street]
              /\ ret' = moved.ret
              /\ raised' = moved.raised
              /\ game' = moved.game
    /\ UNCHANGED <<cards, board, plan, street, deck, fantasy, input_cards, calls, checked, app, pc, client, net>>

\* moves out of turn, of a card that is not held, onto a full row, and
\* moves of a game that is not in progress
Refused ==
    LET mover == game.current_player
        top == _create_deck[1]
    IN  {[player |-> Opponent(mover), card |-> top, street |-> BACK],
         [player |-> mover, card |-> _create_deck[Len(_create_deck)], street |-> BACK]}
        \cup {[player |-> mover, card |-> game.player_cards[mover][i], street |-> s] :
                 i \in {j \in {1} : j <= Len(game.player_cards[mover])},
                 s \in Street \ get_free_streets(game.player_board[mover])}

MakeRefusedMove ==
    /\ \E mv \in Refused :
          LET moved == make_move(game, mv.player, mv.card, mv.street)
          IN  /\ op' = "make_move"
              /\ arg' = mv
              /\ ret' = moved.ret
              /\ raised' = moved.raised
              /\ game' = moved.game
    /\ UNCHANGED <<cards, board, plan, street, deck, fantasy, input_cards, calls, checked, app, pc, client, net>>

GetResult ==
    LET got == get_result(game)
    IN  /\ op' = "get_result"
        /\ ret' = got.result
        /\ raised' = got.raised
        /\ arg' = Unused
        /\ UNCHANGED <<cards, board, plan, street, deck, fantasy, game, input_cards, calls, checked, app, pc, client, net>>

NextGame == Start \/ MakeMove \/ MakeRefusedMove \/ GetResult

SpecGame == InitGame /\ [][NextGame]_vars

----------------------------------------------------------------------------
(* Claims about the Game                                                   *)

MovesPerGame == 2 * (3 + 5 + 5)

----------------------------------------------------------------------------
(* The showdown.  get_result is a function of the two complete boards, so  *)
(* it is applied to finished games: every pair of layouts that share no    *)
(* card, each side having placed its rows in turn.                         *)

TensFront == <<Card(10, HEARTS), Card(10, CLUBS), Card(7, SPADES)>>

\* a valid board whose only royalty is the 5 of its front pair of tens
FiveRoyaltyLayout == [front |-> TensFront, middle |-> LowTwoPair, back |-> SixesMiddle]

\* another such board, of other cards, whose rows rank as those of
\* FiveRoyaltyLayout do
FiveRoyaltyMirror ==
    [front |-> <<Card(10, SPADES), Card(10, DIAMONDS), Card(7, HEARTS)>>,
     middle |-> <<Card(2, SPADES), Card(2, HEARTS), Card(3, SPADES), Card(3, DIAMONDS), Card(4, SPADES)>>,
     back |-> <<Card(11, HEARTS), Card(11, DIAMONDS), Card(11, SPADES), Card(6, HEARTS), Card(4, DIAMONDS)>>]

ShowdownLayouts == Layouts \cup {FiveRoyaltyLayout, FiveRoyaltyMirror}

LayoutCards(l) == CardsOf(l.front) \cup CardsOf(l.middle) \cup CardsOf(l.back)

BoardOf(l) ==
    [EmptyBoard EXCEPT !.front.cards = l.front,
                       !.middle.cards = l.middle,
                       !.back.cards = l.back]

\* the i-th of the thirteen placements of a side: front, middle, back
Placement(l, i) ==
    IF i <= 3 THEN [card |-> l.front[i], street |-> FRONT]
    ELSE IF i <= 8 THEN [card |-> l.middle[i - 3], street |-> MIDDLE]
    ELSE [card |-> l.back[i - 8], street |-> BACK]

RECURSIVE Without(_, _)
Without(l, S) ==
    IF l = <<>> THEN <<>>
    ELSE IF l[1] \in S THEN Without(Tail(l), S)
         ELSE <<l[1]>> \o Without(Tail(l), S)

\* the game after the sides placed the rows of l1 and l2 in alternation
FinishedGame(l1, l2) ==
    [state |-> COMPLETED,
     current_player |-> 1,
     player_cards |-> [p \in Players |-> <<>>],
     player_board |-> [p \in Players |-> IF p = 1 THEN BoardOf(l1) ELSE BoardOf(l2)],
     deck |-> Without(_create_deck, LayoutCards(l1) \cup LayoutCards(l2)),
     history |-> [k \in 1..26 |->
                    LET side == IF k % 2 = 1 THEN 1 ELSE 2
                        placed == Placement(IF side = 1 THEN l1 ELSE l2, (k + 1) \div 2)
                    IN  [player |-> side, card |-> placed.card, street |-> placed.street]]]

InitShowdown ==
    /\ \E l1 \in ShowdownLayouts, l2 \in ShowdownLayouts :
          /\ LayoutCards(l1) \cap LayoutCards(l2) = {}
          /\ game = FinishedGame(l1, l2)
    /\ op = "none"
    /\ ret = 0
    /\ raised = "none"
    /\ arg = Unused
    /\ cards = <<>>
    /\ board = EmptyBoard
    /\ plan = NoPlan
    /\ street = FRONT
    /\ deck = <<>>
    /\ fantasy = Unused
    /\ input_cards = <<>>
    /\ calls = 0
    /\ checked = <<>>
    /\ app = Unused
    /\ pc = Unused
    /\ client = Unused
    /\ net = Unused

NextShowdown == GetResult \/ Start

SpecShowdown == InitShowdown /\ [][NextShowdown]_vars

\* the royalty total of a complete board, row by row
RoyaltyTotal(b) ==
    calculate_front(b.front.cards) + calculate_middle(b.middle.cards)
        + calculate_back(b.back.cards)

\* the number of rows in which b holds the strictly lower rank
RowPoints(b, other) ==
    (IF evaluate(b.front.cards) < evaluate(other.front.cards) THEN 1 ELSE 0)
      + (IF evaluate(b.middle.cards) < evaluate(other.middle.cards) THEN 1 ELSE 0)
      + (IF evaluate(b.back.cards) < evaluate(other.back.cards) THEN 1 ELSE 0)

\* the score the rule gives the side holding b against other
RuleScore(b, other) ==
    IF Foul(b) THEN 0
    ELSE IF Foul(other) THEN 6 + RoyaltyTotal(b)
    ELSE RowPoints(b, other) + RoyaltyTotal(b)
           + (IF RowPoints(b, other) = 3 THEN 6 ELSE 0)

----------------------------------------------------------------------------
(* Claims about the fantasy history                                        *)

\* C22: every fantasy transition is logged and the log is bounded: each
\* enter_fantasy and each exit_fantasy appends one record to the history,
\* and the history stays shorter than the number of calls a run may make,
\* however many of them are transitions.
C22_HistoryLoggedAndBounded ==
    /\ [][(op' = "enter_fantasy" \/ op' = "exit_fantasy")
             => Len(fantasy'.state.history) = Len(fantasy.state.history) + 1]_vars
    /\ [](Len(fantasy.state.history) < MaxFantasyCalls)

----------------------------------------------------------------------------
(* Further claims about HandEvaluator.evaluate                             *)

Broadway == {10, 11, 12, 13, 14}

\* C23: evaluate returns 1 exactly for a suited T-J-Q-K-A; a suited wheel
\* A-2-3-4-5 is a straight flush with high card 5 and evaluates to a value
\* of the straight-flush band, not to 1.
C23_RoyalIsBroadwayOnly ==
    Evaluated5 =>
        /\ ret = 1 <=> (Suited(cards) /\ RankValues(cards) = Broadway)
        /\ (Suited(cards) /\ RankValues(cards) = Wheel)
              => (ret # 1 /\ InBand(HAND_RANKINGS.StraightFlush, ret))

\* the top card of a straight: 5 for the wheel
StraightTop(hand) ==
    IF RankValues(hand) = Wheel THEN 5 ELSE SetMax(RankValues(hand))

\* the rank the hand holds most often (the higher one of two pairs)
MostRepeated(hand) ==
    LET most == SetMax({Multiplicity(hand, r) : r \in RankValues(hand)})
    IN  SetMax(RanksHeld(hand, most))

RunCategories == {HAND_RANKINGS.Straight, HAND_RANKINGS.StraightFlush}

RepeatCategories ==
    {HAND_RANKINGS.FourOfAKind, HAND_RANKINGS.FullHouse,
     HAND_RANKINGS.ThreeOfAKind, HAND_RANKINGS.Pair}

\* C24: within one 5-card category the stronger hand evaluates strictly
\* lower: of two straights or straight flushes the one with the higher top
\* card, of two hands with four, three and two, three or two of a kind the
\* one whose most repeated rank is higher; here the evaluated hand against
\* each example hand of its category.
C24_StrongerWithinCategory ==
    Evaluated5 =>
        \A other \in ExampleHands :
            PokerCategory(cards) = PokerCategory(other) =>
                /\ (PokerCategory(cards) \in RunCategories
                      /\ StraightTop(cards) > StraightTop(other))
                     => ret < evaluate(other)
                /\ (PokerCategory(cards) \in RepeatCategories
                      /\ MostRepeated(cards) > MostRepeated(other))
                     => ret < evaluate(other)

\* the distinct ranks of the hand by descending count, then descending rank
RECURSIVE ByCountThenRank(_, _)
ByCountThenRank(hand, S) ==
    IF S = {} THEN <<>>
    ELSE LET first == CHOOSE r \in S : \A q \in S :
                 \/ Multiplicity(hand, r) > Multiplicity(hand, q)
                 \/ Multiplicity(hand, r) = Multiplicity(hand, q) /\ r >= q
         IN  <<first>> \o ByCountThenRank(hand, S \ {first})

\* the sum of rank_i * 15^i over that order, i counted from 0
RECURSIVE Weighted(_, _)
Weighted(ranks, i) ==
    IF ranks = <<>> THEN 0
    ELSE ranks[1] * Pow15(i) + Weighted(Tail(ranks), i + 1)

KickerByCount(hand) == Weighted(ByCountThenRank(hand, RankValues(hand)), 0)

\* the codes in which evaluate adds the highest card to the band offset
HighCardOffset(hand) ==
    IF _is_flush(hand) THEN 322
    ELSE IF _is_straight(hand) THEN 1599
    ELSE 6185

\* the codes in which evaluate adds the kicker value to the band offset
KickerOffset(hand) ==
    IF _is_four_of_kind(hand) THEN 10
    ELSE IF _is_full_house(hand) THEN 166
    ELSE IF _is_three_of_kind(hand) THEN 1609
    ELSE IF _is_two_pair(hand) THEN 2467
    ELSE 3325

UsesKicker(hand) ==
    /\ ~_is_straight_flush(hand)
    /\ _is_four_of_kind(hand) \/ _is_full_house(hand)
         \/ (~_is_flush(hand) /\ ~_is_straight(hand)
               /\ (_is_three_of_kind(hand) \/ _is_two_pair(hand) \/ _is_pair(hand)))

UsesHighCard(hand) == ~_is_straight_flush(hand) /\ ~UsesKicker(hand)

\* C25: the kicker value of a hand is the sum of rank_i * 15^i over its
\* distinct ranks by descending count and then descending rank (2-2-2-2-A
\* gives 2 + 14 * 15 = 212), and a flush, straight or high-card hand adds
\* its highest card's value to the band offset.
C25_KickerAndHighCard ==
    Evaluated5 =>
        /\ _get_kicker_value(cards) = KickerByCount(cards)
        /\ UsesKicker(cards) => ret = KickerOffset(cards) + KickerByCount(cards)
        /\ UsesHighCard(cards) => ret = HighCardOffset(cards) + SetMax(RankValues(cards))

\* C26: the values evaluate gives to 3-card hands and those it gives to
\* 5-card hands are disjoint: here the evaluated 3-card hand against each
\* 5-card example hand, and the evaluated 5-card hand against each example
\* front row.
C26_FrontAndFiveCardDisjoint ==
    /\ (op = "evaluate" /\ Len(cards) = 3) =>
           \A five \in ExampleHands : ret # evaluate(five)
    /\ Evaluated5 =>
           \A front \in FrontRows : ret # evaluate(front)

----------------------------------------------------------------------------
(* Further claims about the Deck                                           *)

\* C27: every failing Deck operation (draw of more cards than remain, insert
\* past the end, remove of a list holding a card that is not in the deck)
\* leaves the deck's contents and order as they were before the call.
C27_FailureLeavesDeck ==
    [][(op' \in {"draw", "peek", "insert", "remove"} /\ raised' # "none")
         => deck' = deck]_vars

----------------------------------------------------------------------------
(* Claims about the FantasyManager over several hands                      *)

----------------------------------------------------------------------------
(* utils/app_state.py.  An AppState is its dictionaries, its Lock and the  *)
(* time of day.  _active_users keeps the order in which the users were     *)
(* first registered, as a dict does.  The clock counts in steps of twenty  *)
(* minutes.  A training session is a TrainingSession, which has no user_id *)
(* and no save_progress; a game carries the user_id that                   *)
(* _cleanup_user_sessions reads; the AnalyticsManager has no               *)
(* save_game_stats.                                                        *)

Users == {"u1", "u2"}
GameIds == {"g1"}
SessionIds == {"s1"}
Threads == {"cleanup", "request"}

Free == "free"

\* timeout_minutes: int = 30
timeout_minutes == 30

\* AppState.__init__
AppState ==
    [_training_sessions |-> {},
     _games |-> {},
     _active_users |-> <<>>,
     _lock |-> Free,
     now |-> 0]

\* the ids of the games in the dictionary
GameKeys(a) == {g.game_id : g \in a._games}

\* the position of user_id in _active_users, 0 when it is not a key
UserIndex(a, user_id) ==
    IF \E i \in DOMAIN a._active_users : a._active_users[i].user_id = user_id
    THEN CHOOSE i \in DOMAIN a._active_users : a._active_users[i].user_id = user_id
    ELSE 0

\* self._active_users[user_id] = datetime.now()
register_user_activity(a, user_id) ==
    LET i == UserIndex(a, user_id)
        entry == [user_id |-> user_id, last_activity |-> a.now]
    IN  [raised |-> "none",
         app |-> [a EXCEPT !._active_users =
                     IF i = 0 THEN Append(@, entry) ELSE [@ EXCEPT ![i] = entry]]]

create_game(a, game_id, user_id) ==
    IF game_id \in GameKeys(a) THEN [raised |-> "ValueError", app |-> a]
    ELSE [raised |-> "none",
          app |-> [a EXCEPT !._games = @ \cup {[game_id |-> game_id, user_id |-> user_id]}]]

create_training_session(a, session_id) ==
    IF session_id \in a._training_sessions THEN [raised |-> "ValueError", app |-> a]
    ELSE [raised |-> "none", app |-> [a EXCEPT !._training_sessions = @ \cup {session_id}]]

\* session.save_progress() raises before the del
remove_training_session(a, session_id) ==
    IF session_id \in a._training_sessions
    THEN [raised |-> "AttributeError", app |-> a]
    ELSE [raised |-> "none", app |-> a]

\* self._analytics.save_game_stats(game) raises before the del
remove_game(a, game_id) ==
    IF game_id \in GameKeys(a)
    THEN [raised |-> "AttributeError", app |-> a]
    ELSE [raised |-> "none", app |-> a]

\* Lock.acquire by a thread: a Lock is not reentrant, so the thread waits
\* for as long as the lock is held, by whichever thread
Blocks(a) == a._lock # Free

\* AppState._cleanup_user_sessions, called with the lock held: how it ends,
\* and the AppState then
_cleanup_user_sessions(a, user_id) ==
    IF a._training_sessions # {}
    THEN [outcome |-> "AttributeError", app |-> a]      \* session.user_id
    ELSE LET games_to_remove == {g \in a._games : g.user_id = user_id}
         IN  IF games_to_remove # {} /\ Blocks(a)
             THEN [outcome |-> "blocked", app |-> a]     \* remove_game: with self._lock
             ELSE [outcome |-> "none", app |-> a]

\* for user_id in inactive_users: ...
RECURSIVE CleanupUsers(_, _)
CleanupUsers(a, inactive_users) ==
    IF inactive_users = <<>> THEN [outcome |-> "none", app |-> a]
    ELSE LET user_id == inactive_users[1]
             cleaned == _cleanup_user_sessions(a, user_id)
             Others(e) == e.user_id # user_id
         IN  IF cleaned.outcome # "none" THEN cleaned
             ELSE CleanupUsers(
                      [cleaned.app EXCEPT !._active_users = SelectSeq(@, Others)],
                      Tail(inactive_users))

\* AppState.cleanup_inactive_sessions by thread t: how it ends and the
\* AppState then; the lock is released when the with block is left, by
\* return or by exception, and stays held when the thread is blocked
cleanup_inactive_sessions(a, t) ==
    LET held == [a EXCEPT !._lock = t]
        Late(e) == (a.now - e.last_activity) * 20 * 60 > timeout_minutes * 60
        late == SelectSeq(a._active_users, Late)
        inactive_users == [i \in DOMAIN late |-> late[i].user_id]
        ended == CleanupUsers(held, inactive_users)
    IN  IF ended.outcome = "blocked" THEN ended
        ELSE [outcome |-> ended.outcome, app |-> [ended.app EXCEPT !._lock = Free]]

----------------------------------------------------------------------------
(* The cleanup task and a request handler share one AppState.  A call      *)
(* waits for the lock; the holder runs its with block to the end; the      *)
(* clock advances between calls.                                           *)

MaxClock == 3

\* the calls a request handler makes
Requests ==
    {[op |-> "register_user_activity", user_id |-> u] : u \in Users}
      \cup {[op |-> "create_game", game_id |-> g, user_id |-> u] : g \in GameIds, u \in Users}
      \cup {[op |-> "remove_game", game_id |-> g] : g \in GameIds}
      \cup {[op |-> "create_training_session", session_id |-> x] : x \in SessionIds}
      \cup {[op |-> "remove_training_session", session_id |-> x] : x \in SessionIds}

Handle(a, r) ==
    CASE r.op = "register_user_activity" -> register_user_activity(a, r.user_id)
      [] r.op = "create_game" -> create_game(a, r.game_id, r.user_id)
      [] r.op = "remove_game" -> remove_game(a, r.game_id)
      [] r.op = "create_training_session" -> create_training_session(a, r.session_id)
      [] r.op = "remove_training_session" -> remove_training_session(a, r.session_id)

InitApp ==
    /\ app = AppState
    /\ pc = [t \in Threads |-> "idle"]
    /\ op = "none"
    /\ ret = 0
    /\ raised = "none"
    /\ arg = Unused
    /\ cards = <<>>
    /\ board = EmptyBoard
    /\ plan = NoPlan
    /\ street = FRONT
    /\ deck = <<>>
    /\ fantasy = Unused
    /\ game = Unused
    /\ input_cards = <<>>
    /\ calls = 0
    /\ checked = <<>>
    /\ client = Unused
    /\ net = Unused

\* the request handler calls an operation and comes to its with self._lock
RequestCall ==
    /\ pc["request"] = "idle"
    /\ \E r \in Requests : arg' = r
    /\ pc' = [pc EXCEPT !["request"] = "waiting"]
    /\ UNCHANGED <<cards, op, ret, raised, board, plan, street, deck, fantasy, game,
                   input_cards, calls, checked, app, client, net>>

\* the lock is free: the handler takes it, runs the operation, releases it
RequestRun ==
    /\ pc["request"] = "waiting"
    /\ ~Blocks(app)
    /\ LET handled == Handle(app, arg)
       IN  /\ app' = handled.app
           /\ raised' = handled.raised
           /\ op' = arg.op
    /\ pc' = [pc EXCEPT !["request"] = "idle"]
    /\ UNCHANGED <<cards, ret, board, plan, street, deck, fantasy, game,
                   input_cards, arg, calls, checked, client, net>>

\* cleanup_task: app_state.cleanup_inactive_sessions(); an exception is
\* logged and the task sleeps until its next round
Cleanup ==
    /\ pc["cleanup"] = "idle"
    /\ ~Blocks(app)
    /\ LET ended == cleanup_inactive_sessions(app, "cleanup")
       IN  /\ app' = ended.app
           /\ raised' = IF ended.outcome = "blocked" THEN "none" ELSE ended.outcome
           /\ pc' = [pc EXCEPT !["cleanup"] =
                        IF ended.outcome = "blocked" THEN "remove_game" ELSE "idle"]
    /\ op' = "cleanup_inactive_sessions"
    /\ UNCHANGED <<cards, ret, board, plan, street, deck, fantasy, game,
                   input_cards, arg, calls, checked, client, net>>

\* twenty minutes pass
Tick ==
    /\ app.now < MaxClock
    /\ app' = [app EXCEPT !.now = @ + 1]
    /\ UNCHANGED <<cards, op, ret, raised, board, plan, street, deck, fantasy, game,
                   input_cards, arg, calls, checked, pc, client, net>>

NextApp == RequestCall \/ RequestRun \/ Cleanup \/ Tick

SpecApp == InitApp /\ [][NextApp]_vars

----------------------------------------------------------------------------
(* Claims about the AppState                                               *)

\* the users whose last activity lies further back than the timeout
InactiveUsers(a) ==
    {a._active_users[i].user_id : i \in
        {j \in DOMAIN a._active_users :
            (a.now - a._active_users[j].last_activity) * 20 > timeout_minutes}}

\* the step is a call of cleanup_inactive_sessions by the cleanup task
CleanupStep ==
    /\ pc["cleanup"] = "idle"
    /\ op' = "cleanup_inactive_sessions"
    /\ pc'["request"] = pc["request"]
    /\ app'.now = app.now

\* C29: cleanup_inactive_sessions always ends and releases the lock, having
\* removed every user inactive past the timeout together with the games it
\* owns, and no call of the AppState is left waiting for the lock.
C29_CleanupCompletes ==
    /\ [][CleanupStep =>
            /\ pc'["cleanup"] = "idle"
            /\ raised' = "none"
            /\ app'._lock = Free
            /\ \A u \in InactiveUsers(app) :
                  /\ UserIndex(app', u) = 0
                  /\ \A g \in app'._games : g.user_id # u]_vars
    /\ [](app._lock = Free)

----------------------------------------------------------------------------
(* core/game.py, the Game of the browser.  Its handlers run one at a time, *)
(* each to its next await.  client.loop is the await at which              *)
(* startGameLoop stands; client.savedGameState tells whether localStorage  *)
(* holds 'savedGameState'; client.results counts the calls of              *)
(* stats.saveGameResult.  A game state sent by the server is reduced to    *)
(* its gameOver field.                                                     *)

\* constructor()
NewClient ==
    [gameStarted |-> FALSE,
     gameOver |-> FALSE,
     loop |-> "stopped",
     savedGameState |-> FALSE,
     results |-> 0]

\* saveCurrentState(): nothing is stored unless the game is started
saveCurrentState(c) ==
    IF ~c.gameStarted THEN c ELSE [c EXCEPT !.savedGameState = TRUE]

\* updateGameState(newState): the new state merged in, then saved
updateGameState(c, newState) ==
    saveCurrentState([c EXCEPT !.gameOver = newState.gameOver])

\* handleGameOver(result)
handleGameOver(c) ==
    [c EXCEPT !.gameStarted = FALSE,
              !.gameOver = TRUE,
              !.results = @ + 1,
              !.savedGameState = FALSE]

\* while (this.state.gameStarted && !this.state.gameOver)
LoopGoesOn(c) == c.gameStarted /\ ~c.gameOver

\* checkGameState() from its response on, and the loop's next test
checkGameState(c, game_state) ==
    LET updated == updateGameState(c, game_state)
        handled == IF game_state.gameOver THEN handleGameOver(updated) ELSE updated
    IN  [handled EXCEPT !.loop = IF LoopGoesOn(handled) THEN "turn" ELSE "stopped"]

----------------------------------------------------------------------------
(* One game between the browser and the server.  The server answers the    *)
(* request of a turn by moving, which may end the game; it then emits      *)
(* 'game_over' on the socket if the game is over and replies with the game *)
(* state.  It emits 'game_state' when asked, and answers a poll with the   *)
(* game state.                                                             *)
(* Socket events arrive in the order sent; socket and replies overtake     *)
(* each other freely.                                                      *)

MaxMoves == 2

NoReply == [kind |-> "none", gameOver |-> FALSE]

InitClient ==
    /\ client = NewClient
    /\ net = [started |-> FALSE, over |-> FALSE, moves |-> 0,
              socket |-> <<>>, reply |-> NoReply]
    /\ op = "none"
    /\ ret = 0
    /\ raised = "none"
    /\ arg = Unused
    /\ cards = <<>>
    /\ board = EmptyBoard
    /\ plan = NoPlan
    /\ street = FRONT
    /\ deck = <<>>
    /\ fantasy = Unused
    /\ game = Unused
    /\ input_cards = <<>>
    /\ calls = 0
    /\ checked = <<>>
    /\ app = Unused
    /\ pc = Unused

\* startGame(): gameStarted, initializeGameState, startGameLoop
StartGame ==
    /\ ~net.started
    /\ client' = [client EXCEPT !.gameStarted = TRUE, !.loop = "turn"]
    /\ net' = [net EXCEPT !.started = TRUE]
    /\ op' = "startGame"
    /\ UNCHANGED <<cards, ret, raised, board, plan, street, deck, fantasy, game,
                   input_cards, arg, calls, checked, app, pc>>

\* the server makes the move of the turn the loop waits for
ServerMove ==
    /\ client.loop = "turn"
    /\ net.reply = NoReply
    /\ ~net.over
    /\ net.moves < MaxMoves
    /\ \E ends \in BOOLEAN :
          net' = [net EXCEPT
                    !.over = ends,
                    !.moves = @ + 1,
                    !.socket = @ \o (IF ends THEN <<[event |-> "game_over", gameOver |-> TRUE]>>
                                              ELSE <<>>),
                    !.reply = [kind |-> "turn", gameOver |-> ends]]
    /\ op' = "move"
    /\ UNCHANGED <<cards, ret, raised, board, plan, street, deck, fantasy, game,
                   input_cards, arg, calls, checked, app, pc, client>>

\* the server emits 'game_state' with the state of the game
ServerEmitState ==
    /\ net.started
    /\ Len(net.socket) < MaxMoves
    /\ net' = [net EXCEPT !.socket = Append(@, [event |-> "game_state", gameOver |-> net.over])]
    /\ op' = "emit"
    /\ UNCHANGED <<cards, ret, raised, board, plan, street, deck, fantasy, game,
                   input_cards, arg, calls, checked, app, pc, client>>

\* the server answers the poll of checkGameState
ServerState ==
    /\ client.loop = "fetching"
    /\ net.reply = NoReply
    /\ net' = [net EXCEPT !.reply = [kind |-> "state", gameOver |-> net.over]]
    /\ op' = "state"
    /\ UNCHANGED <<cards, ret, raised, board, plan, street, deck, fantasy, game,
                   input_cards, arg, calls, checked, app, pc, client>>

\* socket.on('game_state') and socket.on('game_over')
OnSocket ==
    /\ net.socket # <<>>
    /\ LET e == Head(net.socket)
       IN  /\ client' = IF e.event = "game_over" THEN handleGameOver(client)
                         ELSE updateGameState(client, e)
           /\ op' = e.event
    /\ net' = [net EXCEPT !.socket = Tail(@)]
    /\ UNCHANGED <<cards, ret, raised, board, plan, street, deck, fantasy, game,
                   input_cards, arg, calls, checked, app, pc>>

\* the reply to the turn: updateGameState, then checkGameState sends its poll
OnTurnReply ==
    /\ net.reply.kind = "turn"
    /\ client' = [updateGameState(client, net.reply) EXCEPT !.loop = "fetching"]
    /\ net' = [net EXCEPT !.reply = NoReply]
    /\ op' = "turnReply"
    /\ UNCHANGED <<cards, ret, raised, board, plan, street, deck, fantasy, game,
                   input_cards, arg, calls, checked, app, pc>>

\* the reply to the poll
OnStateReply ==
    /\ net.reply.kind = "state"
    /\ client' = checkGameState(client, net.reply)
    /\ net' = [net EXCEPT !.reply = NoReply]
    /\ op' = "checkGameState"
    /\ UNCHANGED <<cards, ret, raised, board, plan, street, deck, fantasy, game,
                   input_cards, arg, calls, checked, app, pc>>

NextClient ==
    \/ StartGame \/ ServerMove \/ ServerEmitState \/ ServerState
    \/ OnSocket \/ OnTurnReply \/ OnStateReply

SpecClient == InitClient /\ [][NextClient]_vars

----------------------------------------------------------------------------
(* Claims about the browser's Game                                         *)

\* C30: the client handles game-over at most once for the game, whatever
\* the order of the 'game_over' event and the poll's reply, and once it has
\* handled it no later state update stores a saved game state again.
C30_GameOverHandledOnce ==
    /\ client.results <= 1
    /\ client.results >= 1 => ~client.savedGameState

====
